---- MODULE Spec2Model ----
(***************************************************************************)
(* Model of the Google-Docs table helpers of gcp-helper-functions:         *)
(*   write_table_helper_functions.py  insert_rows, insert_text             *)
(*   read_gdoc_helper_functions.py    read_doc_text, read_table_section,   *)
(*                                    read_table_textruns, read_doc_table, *)
(*                                    clean_table                          *)
(* Three specifications share the module: Spec (the write path and the     *)
(* document the batch is applied to), SpecRead (the read path) and         *)
(* SpecClean (the normalizer).                                             *)
(***************************************************************************)
EXTENDS Integers, Sequences, FiniteSets, TLC

VARIABLES
    fetched,      \* write path: the document buffer as read_doc returned it
    live,         \* write path: the document buffer on the server
    table_body,   \* write path: the table node of the fetched document (a mutable object)
    call,         \* write path: the latest builder call: its arguments as handed in, and its result
    applied,      \* write path: how many operations of call.request have been applied to live
    doc,          \* read path: the content list doc["body"]["content"]
    params,       \* read path: table_id, header_row_index, preserve_format
    out,          \* read path: the outcome of the latest read operation
    table         \* normalizer: the DataFrame handed to / returned by clean_table

vars == <<fetched, live, table_body, call, applied, doc, params, out, table>>
wvars == <<fetched, live, table_body, call, applied>>
rvars == <<doc, params, out>>

(***************************************************************************)
(* Bounds of the model.                                                    *)
(***************************************************************************)
MaxRows == 3
MaxCols == 2
MaxDataRows == 2
MaxTextLen == 2

(***************************************************************************)
(* The values a specification gives the variables of the other paths.      *)
(***************************************************************************)
NoCall == [op |-> "none", table |-> <<>>, df |-> [columns |-> <<1>>, values |-> <<>>],
           index |-> 0, request |-> <<>>]
NoParams == [table_id |-> <<>>, header_row_index |-> 0, preserve_format |-> FALSE]
NoOut == [op |-> "none", status |-> "none", value |-> <<>>]
NoTable == [df |-> [columns |-> <<>>, data |-> <<>>],
            given |-> [columns |-> <<>>, data |-> <<>>], cleaned |-> FALSE]

(***************************************************************************)
(* Sequence helpers (Python list operations).                              *)
(***************************************************************************)
Min(a, b) == IF a <= b THEN a ELSE b

\* list.reverse()
Reverse(s) == [i \in 1..Len(s) |-> s[Len(s) + 1 - i]]

\* [item for row in rows for item in row]
RECURSIVE Flatten(_)
Flatten(ss) == IF ss = <<>> THEN <<>> ELSE Head(ss) \o Flatten(Tail(ss))

\* s[k:] with k >= 0
SliceFrom(s, k) == IF k >= Len(s) THEN <<>> ELSE SubSeq(s, k + 1, Len(s))

\* zip(a, b): stops at the shorter list
Zip(a, b) == [i \in 1..Min(Len(a), Len(b)) |-> <<a[i], b[i]>>]

(***************************************************************************)
(* The document buffer.  An element is an integer: k > 0 is the leading    *)
(* structural character of table cell k (cells numbered in row-major       *)
(* order), 0 is any other character of the document as read, and -v is a   *)
(* character of the text of value v written by an InsertText.  The index   *)
(* of an element is its position in the buffer.                            *)
(***************************************************************************)
CellId(r, c, C) == (r - 1) * C + c

\* the content already in cell k: one or two characters (the paragraph's newline, text)
CellContent(k) == [i \in 1..(1 + (k % 2)) |-> 0]

RowBuffer(r, C) == <<0>> \o Flatten([c \in 1..C |-> <<CellId(r, c, C)>> \o CellContent(CellId(r, c, C))])

\* a paragraph before the table, the table's start, then its rows
DocBuffer(R, C) == <<0, 0>> \o Flatten([r \in 1..R |-> RowBuffer(r, C)])

PositionOf(buf, k) == CHOOSE i \in 1..Len(buf) : buf[i] = k

\* the table node of the document: startIndex of the table and of every cell
TableNode(buf, R, C) ==
    [startIndex |-> 2,
     table |-> [rows |-> R, columns |-> C,
                tableRows |-> [r \in 1..R |->
                    [tableCells |-> [c \in 1..C |->
                        [startIndex |-> PositionOf(buf, CellId(r, c, C))]]]]]]

(***************************************************************************)
(* The data to write: a DataFrame of W columns and n rows.  A header name  *)
(* or a value is identified by its place in the row-major sequence         *)
(* [columns] + values: 1..W are the header names, then the data rows.      *)
(***************************************************************************)
DataFrame(W, n) ==
    [columns |-> [j \in 1..W |-> j],
     values |-> [i \in 1..n |-> [j \in 1..W |-> i * W + j]]]

\* the string of value v: one to MaxTextLen characters
Text(v) == [i \in 1..(1 + (v % MaxTextLen)) |-> 0 - v]

(***************************************************************************)
(* write_table_helper_functions.py                                         *)
(***************************************************************************)
\* insert_rows: len(df) copies of one insertTableRow request
insert_rows(tb, df, insert_index) ==
    [i \in 1..Len(df.values) |->
        [insertTableRow |->
            [tableCellLocation |->
                [tableStartLocation |-> [index |-> tb.startIndex],
                 rowIndex |-> insert_index],
             insertBelow |-> TRUE]]]

\* the lists the loop would visit, were the cells of a row not reversed
VisitedCellsForward(tb, first_row_index) ==
    [i \in 1..Len(SliceFrom(tb.table.tableRows, first_row_index)) |->
        Reverse(SliceFrom(tb.table.tableRows, first_row_index))[i].tableCells]

\* the lists `cells` the loop of insert_text visits, after cells.reverse(): rows is a
\* reversed copy of tableRows[first_row_index:], and each row's tableCells is reversed
VisitedCells(tb, first_row_index) ==
    [i \in 1..Len(SliceFrom(tb.table.tableRows, first_row_index)) |->
        Reverse(Reverse(SliceFrom(tb.table.tableRows, first_row_index))[i].tableCells)]

\* cell_index: startIndex + 1 of every visited cell
CellIndex(tb, first_row_index) ==
    LET cells == Flatten(VisitedCells(tb, first_row_index))
    IN  [i \in 1..Len(cells) |-> cells[i].startIndex + 1]

\* cell_text: the header names then the data rows, flattened, then reversed
CellText(df) == Reverse(Flatten(<<df.columns>> \o df.values))

\* the returned request list
InsertTextRequest(tb, df, first_row_index) ==
    LET z == Zip(CellIndex(tb, first_row_index), CellText(df))
    IN  [i \in 1..Len(z) |->
            [insertText |-> [location |-> [index |-> z[i][1]], text |-> Text(z[i][2])]]]

\* the table node after the call: cells.reverse() reverses, in place, the tableCells
\* list of every row at or after first_row_index (rows.reverse() acts on a copy)
TableAfterInsertText(tb, first_row_index) ==
    [tb EXCEPT !.table.tableRows =
        [r \in 1..Len(tb.table.tableRows) |->
            IF r > first_row_index
            THEN [tb.table.tableRows[r] EXCEPT !.tableCells = Reverse(@)]
            ELSE tb.table.tableRows[r]]]

\* batchUpdate's insertText: text goes in at index, everything from index on shifts
InsertAt(buf, index, text) ==
    SubSeq(buf, 1, index - 1) \o text \o SubSeq(buf, index, Len(buf))

Shapes == (1..MaxRows) \X (1..MaxCols)

Fetch(R, C) ==
    /\ fetched' = DocBuffer(R, C)
    /\ live' = DocBuffer(R, C)
    /\ table_body' = TableNode(DocBuffer(R, C), R, C)
    /\ call' = NoCall
    /\ applied' = 0

\* read_doc, then the table node is picked from it
ReadDoc ==
    /\ \E s \in Shapes : Fetch(s[1], s[2])
    /\ UNCHANGED <<rvars, table>>

InsertRows ==
    /\ applied = 0
    /\ \E W \in 1..MaxCols, n \in 0..MaxDataRows, insert_index \in 0..MaxRows :
        call' = [op |-> "insert_rows", table |-> table_body, df |-> DataFrame(W, n),
                 index |-> insert_index,
                 request |-> insert_rows(table_body, DataFrame(W, n), insert_index)]
    /\ UNCHANGED <<fetched, live, table_body, applied, rvars, table>>

InsertText ==
    /\ applied = 0
    /\ \E W \in 1..MaxCols, n \in 0..MaxDataRows, first_row_index \in 0..MaxRows :
        /\ call' = [op |-> "insert_text", table |-> table_body, df |-> DataFrame(W, n),
                    index |-> first_row_index,
                    request |-> InsertTextRequest(table_body, DataFrame(W, n), first_row_index)]
        /\ table_body' = TableAfterInsertText(table_body, first_row_index)
    /\ UNCHANGED <<fetched, live, applied, rvars, table>>

\* the batch of the latest insert_text call is applied, one operation at a time
ApplyOp ==
    /\ call.op = "insert_text"
    /\ applied < Len(call.request)
    /\ live' = InsertAt(live, call.request[applied + 1].insertText.location.index,
                        call.request[applied + 1].insertText.text)
    /\ applied' = applied + 1
    /\ UNCHANGED <<fetched, table_body, call, rvars, table>>

(***************************************************************************)
(* Write path: what the claims speak of.                                   *)
(***************************************************************************)
Rows(tb) == tb.table.tableRows
Cols(tb) == tb.table.columns

\* the cells of the node, in the order its lists hold them
NodeCells(tb) == Flatten([r \in 1..Len(Rows(tb)) |-> Rows(tb)[r].tableCells])

\* the node lists its cells with strictly increasing startIndex, row by row
RowMajorIncreasing(tb) ==
    \A i \in 1..Len(NodeCells(tb)), j \in 1..Len(NodeCells(tb)) :
        i < j => NodeCells(tb)[i].startIndex < NodeCells(tb)[j].startIndex

\* the number of cells in the rows at or after first_row_index
CellsFrom(tb, first_row_index) ==
    IF first_row_index >= Len(Rows(tb)) THEN 0
    ELSE (Len(Rows(tb)) - first_row_index) * Cols(tb)

\* startIndex, in the document as read, of the k-th cell (row-major) counted from
\* row first_row_index
StartOfKth(tb, first_row_index, k) == PositionOf(fetched, first_row_index * Cols(tb) + k)

RequestIndex(i) == call.request[i].insertText.location.index

\* C1: write-backwards validity.  When insert_text was handed a table whose cells
\* have strictly increasing startIndex in row-major order and its operations are
\* applied in the emitted order to the document the offsets were read from, the
\* next operation's index is, at the moment it is applied, still the position just
\* after the leading structural character of the cell it was computed for.
C1_WriteBackwardsValid ==
    (/\ call.op = "insert_text"
     /\ RowMajorIncreasing(call.table)
     /\ applied < Len(call.request))
    => /\ fetched[RequestIndex(applied + 1) - 1] > 0
       /\ live[RequestIndex(applied + 1) - 1] = fetched[RequestIndex(applied + 1) - 1]

\* C1 witness: a batch over a table of two columns, part applied (text already inserted) and part to come
C1_Witness ==
    /\ call.op = "insert_text"
    /\ RowMajorIncreasing(call.table)
    /\ Cols(call.table) >= 2
    /\ applied >= 2
    /\ applied < Len(call.request)
    /\ Len(live) > Len(fetched) + 2

\* C2: for a table of at least 2 rows and 2 columns insert_text returns exactly one
\* InsertText per cell of the rows at or after firstRowIndex, at startIndex + 1, in
\* reverse row-major order, the indexes strictly decreasing.
C2_OnePerCellReverseRowMajor ==
    (/\ call.op = "insert_text"
     /\ Len(Rows(call.table)) >= 2
     /\ Cols(call.table) >= 2)
    => /\ Len(call.request) = CellsFrom(call.table, call.index)
       /\ \A i \in 1..Len(call.request) :
            RequestIndex(i) =
                StartOfKth(call.table, call.index, CellsFrom(call.table, call.index) + 1 - i) + 1
       /\ \A i \in 1..Len(call.request), j \in 1..Len(call.request) :
            i < j => RequestIndex(i) > RequestIndex(j)

\* C3: the builders are pure.  A call of insert_rows or insert_text leaves the table
\* node unchanged, and a second insert_text call with the same data and
\* firstRowIndex returns the list the first returned.
C3_BuildersPure ==
    [][/\ (call' /= call /\ call'.op \in {"insert_rows", "insert_text"})
            => table_body' = table_body
       /\ (/\ call.op = "insert_text"
           /\ call'.op = "insert_text"
           /\ call'.df = call.df
           /\ call'.index = call.index)
            => call'.request = call.request]_vars

\* C10: cell/value alignment.  Every emitted InsertText pairs the k-th cell (row-major,
\* counted from row firstRowIndex) with the k-th value of [header names] + data rows,
\* also when the number of values differs from the number of cells.
C10_KthCellKthValue ==
    call.op = "insert_text"
    => \A i \in 1..Len(call.request) :
        \E k \in 1..CellsFrom(call.table, call.index) :
            /\ RequestIndex(i) = StartOfKth(call.table, call.index, k) + 1
            /\ call.request[i].insertText.text = Text(k)

(***************************************************************************)
(* READ PATH.  The content tree.  A string is a sequence of characters.    *)
(*   paragraph:       [kind, elements]; an element is                      *)
(*                    [startIndex, kind, content, deleted], kind "textRun" *)
(*                    or "inlineObject" (an element without a textRun),    *)
(*                    deleted = "suggestedDeletionIds" in the textRun      *)
(*   table:           [kind, columns, tableRows]; a row is [tableCells],   *)
(*                    a cell [startIndex, content]                         *)
(*   tableOfContents: [kind, content]                                      *)
(*   sectionBreak:    [kind]                                               *)
(***************************************************************************)
MaxTableRows == 3
MaxTableCols == 2

TextRun(s, del) == [startIndex |-> 0, kind |-> "textRun", content |-> s, deleted |-> del]
InlineObject == [startIndex |-> 0, kind |-> "inlineObject", content |-> <<>>, deleted |-> FALSE]
Paragraph(elems) == [kind |-> "paragraph", elements |-> elems]
Table(C, rows) == [kind |-> "table", columns |-> C, tableRows |-> rows]
Cell(content) == [startIndex |-> 0, content |-> content]
TableOfContents(content) == [kind |-> "tableOfContents", content |-> content]
SectionBreak == [kind |-> "sectionBreak"]

Letters == <<"a", "b", "c", "d">>
Digits == <<"1", "2", "3", "4", "5">>

\* the paragraph of cell (r, c): its letter and the row's digit, as one fragment, or
\* with a suggested deletion "xy" between them
CellParagraph(r, c, dup, del) ==
    LET letter == IF dup THEN "h" ELSE Letters[c]
    IN  IF del
        THEN Paragraph(<<TextRun(<<letter>>, FALSE), TextRun(<<"x", "y">>, TRUE),
                         TextRun(<<Digits[r]>>, FALSE)>>)
        ELSE Paragraph(<<TextRun(<<letter, Digits[r]>>, FALSE)>>)

\* a table nested in a cell: one cell holding "q" and a suggested deletion
NestedTable ==
    Table(1, <<[tableCells |-> <<Cell(<<Paragraph(<<TextRun(<<"q">>, FALSE),
                                                      TextRun(<<"w">>, TRUE)>>)>>)>>]>>)

\* cell (r, c): its paragraph; the first cell of a row after the first has a second
\* paragraph; with
\* extra = "nested" the last cell of the first row also holds a nested table, with
\* extra = "inline" the last cell of the last row holds an element without a textRun
TableCell(r, c, n, R, dup, del, extra) ==
    Cell(<<CellParagraph(r, c, dup, del)>>
         \o (IF c = 1 /\ r >= 2 THEN <<Paragraph(<<TextRun(<<"z">>, FALSE)>>)>> ELSE <<>>)
         \o (IF extra = "nested" /\ r = 1 /\ c = n THEN <<NestedTable>> ELSE <<>>)
         \o (IF extra = "inline" /\ r = R /\ c = n
             THEN <<Paragraph(<<InlineObject, TextRun(<<"e">>, FALSE)>>)>> ELSE <<>>))

\* row r has C cells, but the row `odd` (if any) has C + delta
RowLen(r, C, odd, delta) == IF r = odd THEN C + delta ELSE C

TableOf(R, C, odd, delta, dup, del, extra) ==
    Table(C, [r \in 1..R |->
        [tableCells |-> [c \in 1..RowLen(r, C, odd, delta) |->
            TableCell(r, c, RowLen(r, C, odd, delta), R, dup, del, extra)]]])

\* the content list before offsets are assigned: a paragraph, the table, a table of
\* contents repeating a heading, a section break
Skeleton(R, C, odd, delta, dup, del, extra) ==
    << Paragraph(<<TextRun(<<"i", "n">>, FALSE), InlineObject, TextRun(<<"t">>, del)>>),
       TableOf(R, C, odd, delta, dup, del, extra),
       TableOfContents(<<Paragraph(<<TextRun(<<"a", "1">>, FALSE)>>)>>),
       SectionBreak >>

\* The document's offset space: every element takes up its characters (an inline
\* object one), every table, row, cell, table of contents and section break one
\* structural character, in document order.
ElemLen(e) == IF e.kind = "textRun" THEN Len(e.content) ELSE 1

RECURSIVE NumElems(_, _)
NumElems(elems, n) ==
    IF elems = <<>> THEN [items |-> <<>>, next |-> n]
    ELSE LET t == NumElems(Tail(elems), n + ElemLen(Head(elems)))
         IN  [items |-> <<[Head(elems) EXCEPT !.startIndex = n]>> \o t.items, next |-> t.next]

RECURSIVE NumNodes(_, _)
RECURSIVE NumCells(_, _)
RECURSIVE NumRows(_, _)
NumCells(cells, n) ==
    IF cells = <<>> THEN [items |-> <<>>, next |-> n]
    ELSE LET c == NumNodes(Head(cells).content, n + 1)
             t == NumCells(Tail(cells), c.next)
         IN  [items |-> <<[startIndex |-> n, content |-> c.items]>> \o t.items, next |-> t.next]

NumRows(rows, n) ==
    IF rows = <<>> THEN [items |-> <<>>, next |-> n]
    ELSE LET r == NumCells(Head(rows).tableCells, n + 1)
             t == NumRows(Tail(rows), r.next)
         IN  [items |-> <<[tableCells |-> r.items]>> \o t.items, next |-> t.next]

NumNode(node, n) ==
    CASE node.kind = "paragraph" ->
            LET e == NumElems(node.elements, n)
            IN  [item |-> [node EXCEPT !.elements = e.items], next |-> e.next]
      [] node.kind = "table" ->
            LET r == NumRows(node.tableRows, n + 1)
            IN  [item |-> [node EXCEPT !.tableRows = r.items], next |-> r.next]
      [] node.kind = "tableOfContents" ->
            LET c == NumNodes(node.content, n + 1)
            IN  [item |-> [node EXCEPT !.content = c.items], next |-> c.next]
      [] OTHER -> [item |-> node, next |-> n + 1]

NumNodes(nodes, n) ==
    IF nodes = <<>> THEN [items |-> <<>>, next |-> n]
    ELSE LET h == NumNode(Head(nodes), n)
             t == NumNodes(Tail(nodes), h.next)
         IN  [items |-> <<h.item>> \o t.items, next |-> t.next]

\* doc["body"]["content"] of a document of the family
Content(R, C, odd, delta, dup, del, extra) ==
    NumNodes(Skeleton(R, C, odd, delta, dup, del, extra), 1).items

(***************************************************************************)
(* read_gdoc_helper_functions.py (gcp_client.GDocsClient holds the same    *)
(* functions as methods; read_doc_table is modelled from the method, which *)
(* calls self.read_table_textruns where the function first imports it from *)
(* a module gdoc_helper_functions).  An outcome is [status, value]: "ok",  *)
(* "none" (None is returned) or "error" (an exception leaves the call).    *)
(***************************************************************************)
\* read_doc_text.read_paragraph_element, were suggested deletions kept
read_paragraph_element_keeping(element) ==
    IF element.kind /= "textRun" THEN <<>> ELSE element.content

\* read_doc_text.read_paragraph_element
read_paragraph_element(element) ==
    IF element.kind /= "textRun" \/ element.deleted THEN <<>> ELSE element.content

RECURSIVE ParagraphText(_)
ParagraphText(elems) ==
    IF elems = <<>> THEN <<>>
    ELSE read_paragraph_element(Head(elems)) \o ParagraphText(Tail(elems))

\* read_doc_text.read_structural_elements; TableText is its loop over rows and cells
RECURSIVE read_structural_elements(_)
RECURSIVE TableText(_)
TableText(cells) ==
    IF cells = <<>> THEN <<>>
    ELSE read_structural_elements(Head(cells).content) \o TableText(Tail(cells))

read_structural_elements(elements) ==
    IF elements = <<>> THEN <<>>
    ELSE LET value == Head(elements)
         IN  (CASE value.kind = "paragraph" -> ParagraphText(value.elements)
                [] value.kind = "table" ->
                     TableText(Flatten([r \in 1..Len(value.tableRows) |->
                                            value.tableRows[r].tableCells]))
                [] value.kind = "tableOfContents" -> read_structural_elements(value.content)
                [] OTHER -> <<>>)
             \o read_structural_elements(Tail(elements))

read_doc_text(content) == read_structural_elements(content)

\* str(section): the node's dump, its text between structural characters
RECURSIVE Str(_)
RECURSIVE StrAll(_)
StrElem(e) ==
    <<"{">> \o e.content \o (IF e.deleted THEN <<"~">> ELSE <<>>) \o <<"}">>

StrAll(nodes) == IF nodes = <<>> THEN <<>> ELSE Str(Head(nodes)) \o StrAll(Tail(nodes))

Str(node) ==
    CASE node.kind = "paragraph" ->
            <<"{">> \o Flatten([i \in 1..Len(node.elements) |-> StrElem(node.elements[i])]) \o <<"}">>
      [] node.kind = "table" ->
            <<"[">> \o Flatten([r \in 1..Len(node.tableRows) |->
                        <<"[">> \o Flatten([c \in 1..Len(node.tableRows[r].tableCells) |->
                            <<"{">> \o StrAll(node.tableRows[r].tableCells[c].content) \o <<"}">>])
                        \o <<"]">>]) \o <<"]">>
      [] node.kind = "tableOfContents" -> <<"{">> \o StrAll(node.content) \o <<"}">>
      [] OTHER -> <<"{", "}">>

\* table_id in str(section)
Contains(s, t) == \E k \in 0..(Len(s) - Len(t)) : SubSeq(s, k + 1, k + Len(t)) = t

\* read_table_section, were the last matching section returned
RECURSIVE LastSection(_, _)
LastSection(sections, table_id) ==
    IF sections = <<>> THEN [status |-> "none", value |-> <<>>]
    ELSE IF Contains(Str(sections[Len(sections)]), table_id)
         THEN [status |-> "ok", value |-> sections[Len(sections)]]
         ELSE LastSection(SubSeq(sections, 1, Len(sections) - 1), table_id)

\* read_table_section: the loop over doc['body']['content']
RECURSIVE read_table_section(_, _)
read_table_section(sections, table_id) ==
    IF sections = <<>> THEN [status |-> "none", value |-> <<>>]
    ELSE IF Contains(Str(Head(sections)), table_id)
         THEN [status |-> "ok", value |-> Head(sections)]
         ELSE read_table_section(Tail(sections), table_id)

Spaces(n) == [i \in 1..n |-> " "]

\* read_table_textruns.read_textrun_element, were preserve_format ignored
read_textrun_element_dropping(elem, preserve_format) ==
    IF elem.deleted THEN <<elem.startIndex, <<>>>> ELSE <<elem.startIndex, elem.content>>

\* read_table_textruns.read_textrun_element
read_textrun_element(elem, preserve_format) ==
    IF elem.deleted
    THEN <<elem.startIndex, IF preserve_format THEN Spaces(Len(elem.content)) ELSE <<>>>>
    ELSE <<elem.startIndex, elem.content>>

\* "".join([e[1] for e in elems])
Join(elems) == Flatten([i \in 1..Len(elems) |-> elems[i][2]])

read_para(para, preserve_format) ==
    LET para_elems == [i \in 1..Len(para.elements) |->
                          read_textrun_element(para.elements[i], preserve_format)]
    IN  <<para_elems[1][1], Join(para_elems)>>

read_cell(cell, preserve_format) ==
    LET cell_elems == [i \in 1..Len(cell.content) |-> read_para(cell.content[i], preserve_format)]
    IN  <<cell_elems[1][1], Join(cell_elems)>>

read_row(row, preserve_format) ==
    [c \in 1..Len(row.tableCells) |-> read_cell(row.tableCells[c], preserve_format)]

\* what makes read_cell raise: no content or no element (IndexError), a content node
\* that is no paragraph or an element without a textRun (KeyError)
CellRaises(cell) ==
    \/ cell.content = <<>>
    \/ \E i \in 1..Len(cell.content) :
        \/ cell.content[i].kind /= "paragraph"
        \/ /\ cell.content[i].kind = "paragraph"
           /\ \/ cell.content[i].elements = <<>>
              \/ \E j \in 1..Len(cell.content[i].elements) :
                    cell.content[i].elements[j].kind /= "textRun"

read_table_textruns(content, table_id, header_row_index, preserve_format) ==
    LET section == read_table_section(content, table_id)
    IN  IF section.status = "none" THEN [status |-> "none", value |-> <<>>]
        ELSE IF section.value.kind /= "table" THEN [status |-> "error", value |-> <<>>]
        ELSE LET rows == SliceFrom(section.value.tableRows, header_row_index)
             IN  IF \E r \in 1..Len(rows) : \E c \in 1..Len(rows[r].tableCells) :
                        CellRaises(rows[r].tableCells[c])
                 THEN [status |-> "error", value |-> <<>>]
                 ELSE [status |-> "ok",
                       value |-> [table_cells |-> Flatten([r \in 1..Len(rows) |->
                                                     read_row(rows[r], preserve_format)]),
                                  column_n |-> section.value.columns]]

\* [cell_text[i:i + column_n] for i in range(0, len(cell_text), column_n)]
RECURSIVE Chunks(_, _)
Chunks(s, n) ==
    IF s = <<>> THEN <<>>
    ELSE IF Len(s) <= n THEN <<s>>
    ELSE <<SubSeq(s, 1, n)>> \o Chunks(SubSeq(s, n + 1, Len(s)), n)

Rectangular(rows) == \A i \in 1..Len(rows) : Len(rows[i]) = Len(rows[1])

\* np.array(rows).T.tolist() of a rectangular list of rows (an empty list gives [])
Transpose(rows) ==
    IF rows = <<>> THEN <<>>
    ELSE [j \in 1..Len(rows[1]) |-> [i \in 1..Len(rows) |-> rows[i][j]]]

\* dict(zip(headers, data)): a repeated key keeps its first place and its last value
RECURSIVE Dict(_)
Dict(pairs) ==
    IF pairs = <<>> THEN <<>>
    ELSE LET d == Dict(SubSeq(pairs, 1, Len(pairs) - 1))
             p == pairs[Len(pairs)]
         IN  IF \E i \in 1..Len(d) : d[i][1] = p[1]
             THEN [i \in 1..Len(d) |-> IF d[i][1] = p[1] THEN p ELSE d[i]]
             ELSE Append(d, p)

\* read_doc_table.  ragged_raises: np.array of rows of unequal length raises
\* (numpy >= 1.24) or builds a one-dimensional array of lists (older numpy).
read_doc_table(content, table_id, header_row_index, preserve_format, ragged_raises) ==
    LET got == read_table_textruns(content, table_id, header_row_index, preserve_format)
    IN  IF got.status /= "ok" THEN got
        ELSE LET cell_text == [i \in 1..Len(got.value.table_cells) |-> got.value.table_cells[i][2]]
                 rows == Chunks(cell_text, got.value.column_n)
             IN  IF rows = <<>> THEN [status |-> "error", value |-> <<>>]
                 ELSE IF ~Rectangular(Tail(rows)) /\ ragged_raises
                 THEN [status |-> "error", value |-> <<>>]
                 ELSE LET headers == rows[1]
                          data == IF Rectangular(Tail(rows)) THEN Transpose(Tail(rows))
                                  ELSE Tail(rows)
                          d == Dict(Zip(headers, data))
                      IN  IF \E i \in 1..Len(d) : Len(d[i][2]) /= Len(d[1][2])
                          THEN [status |-> "error", value |-> <<>>]
                          ELSE [status |-> "ok",
                                value |-> [columns |-> [i \in 1..Len(d) |-> d[i][1]],
                                           data |-> [i \in 1..Len(d) |-> d[i][2]]]]

(***************************************************************************)
(* The read path's state machine: a document and the call's arguments are  *)
(* drawn, then the read operations run on them.                            *)
(***************************************************************************)
TableIds == {<<"a", "1">>, <<"a">>, <<"i">>, <<"q">>, <<"N", "O">>}
Extras == {"plain", "nested", "inline"}
\* the cells of a row hold different letters, the same letter, or a suggested deletion
Styles == {"plain", "dup", "del"}


ReadDocText ==
    /\ out' = [op |-> "read_doc_text", status |-> "ok", value |-> read_doc_text(doc)]
    /\ UNCHANGED <<doc, params, wvars, table>>

ReadTableSection ==
    /\ out' = [op |-> "read_table_section"] @@ read_table_section(doc, params.table_id)
    /\ UNCHANGED <<doc, params, wvars, table>>

ReadTableTextruns ==
    /\ out' = [op |-> "read_table_textruns"]
              @@ read_table_textruns(doc, params.table_id, params.header_row_index,
                                     params.preserve_format)
    /\ UNCHANGED <<doc, params, wvars, table>>

ReadDocTable ==
    /\ \E ragged_raises \in BOOLEAN :
        out' = [op |-> "read_doc_table"]
               @@ read_doc_table(doc, params.table_id, params.header_row_index,
                                 params.preserve_format, ragged_raises)
    /\ UNCHANGED <<doc, params, wvars, table>>

InitRead ==
    /\ \/ doc = <<>>
       \/ \E R \in 1..MaxTableRows, C \in 1..MaxTableCols, odd \in 0..MaxTableRows,
             delta \in {-1, 1}, style \in Styles, extra \in Extras :
            /\ odd <= R
            /\ C + delta >= 1
            /\ odd = 0 => delta = 1
            /\ doc = Content(R, C, odd, delta, style = "dup", style = "del", extra)
    /\ \E id \in TableIds, h \in 0..MaxTableRows, pf \in BOOLEAN :
        params = [table_id |-> id, header_row_index |-> h, preserve_format |-> pf]
    /\ out = NoOut
    /\ fetched = <<>>
    /\ live = <<>>
    /\ table_body = <<>>
    /\ call = NoCall
    /\ applied = 0
    /\ table = NoTable

NextRead == ReadDocText \/ ReadTableSection \/ ReadTableTextruns \/ ReadDocTable

SpecRead == InitRead /\ [][NextRead]_vars

(***************************************************************************)
(* Read path: what the claims speak of.                                    *)
(***************************************************************************)
\* the top-level nodes whose dump contains table_id
Matches == {i \in 1..Len(doc) : Contains(Str(doc[i]), params.table_id)}

\* the located table's rows at or after header_row_index, and their cells in order
LocatedTable == read_table_section(doc, params.table_id).value
RegionRows == SliceFrom(LocatedTable.tableRows, params.header_row_index)
RegionCells == Flatten([r \in 1..Len(RegionRows) |-> RegionRows[r].tableCells])

CellString(cell) == read_cell(cell, params.preserve_format)[2]

\* C4: when the number of cells extracted from the rows at or after headerRowIndex is
\* not a multiple of the declared column count, read_doc_table ends in an error.
C4_RaggedIsError ==
    (/\ out.op = "read_doc_table"
     /\ read_table_textruns(doc, params.table_id, params.header_row_index,
                            params.preserve_format).status = "ok"
     /\ Len(RegionCells) % LocatedTable.columns /= 0)
    => out.status = "error"

\* C5: a returned grid has as many columns as the table declares, column i named by
\* the i-th header cell and holding the i-th cell of every data row, in row order.
C5_GridMatchesTable ==
    (out.op = "read_doc_table" /\ out.status = "ok")
    => LET columns == LocatedTable.columns
           rows == RegionRows
       IN  /\ Len(out.value.columns) = columns
           /\ \A i \in 1..columns :
                /\ i <= Len(rows[1].tableCells)
                /\ out.value.columns[i] = CellString(rows[1].tableCells[i])
                /\ Len(out.value.data[i]) = Len(rows) - 1
                /\ \A j \in 2..Len(rows) :
                    /\ i <= Len(rows[j].tableCells)
                    /\ out.value.data[i][j - 1] = CellString(rows[j].tableCells[i])

\* C6: read_table_section returns the first top-level node whose dump contains
\* table_id; when none does it returns None, and read_table_textruns and
\* read_doc_table then return None too, none of them raising.
C6_LocateFirstOrNone ==
    LET found == Matches
    IN  /\ out.op = "read_table_section"
            => IF found = {} THEN out.status = "none"
               ELSE /\ out.status = "ok"
                    /\ \E i \in found :
                        /\ \A j \in found : i <= j
                        /\ out.value = doc[i]
        /\ (out.op \in {"read_table_textruns", "read_doc_table"} /\ found = {})
            => out.status = "none"

\* C6 witness: the marker occurs in two top-level nodes, the table and the table of contents, and
\* the table, the first, is what the locator returned
C6_Witness ==
    /\ out.op = "read_table_section"
    /\ Cardinality(Matches) = 2
    /\ out.status = "ok"
    /\ out.value.kind = "table"

\* the fragments of a cell, paragraph by paragraph, in order
Fragments(cell) == Flatten([i \in 1..Len(cell.content) |-> cell.content[i].elements])

ResolvedLen(f, preserve_format) ==
    IF f.deleted /\ ~preserve_format THEN 0 ELSE Len(f.content)

RECURSIVE ResolvedOffset(_, _, _)
ResolvedOffset(frags, i, preserve_format) ==
    IF i = 1 THEN 0
    ELSE ResolvedOffset(frags, i - 1, preserve_format) + ResolvedLen(frags[i - 1], preserve_format)

\* text is made of one piece per fragment, in order: a suggested deletion's piece is
\* as long as its text and all spaces (preserve_format) or empty, any other piece is
\* the fragment's text
ResolvedPieces(cell, text, preserve_format) ==
    LET frags == Fragments(cell)
    IN  /\ Len(text) = ResolvedOffset(frags, Len(frags) + 1, preserve_format)
        /\ \A i \in 1..Len(frags) :
            LET off == ResolvedOffset(frags, i, preserve_format)
            IN  \A j \in 1..ResolvedLen(frags[i], preserve_format) :
                    text[off + j] = IF frags[i].deleted THEN " " ELSE frags[i].content[j]

\* C7: in read_table_textruns a suggested deletion resolves to spaces of its length
\* (preserve_format) or to the empty string, any other fragment to its text, and a
\* cell's text is the in-order concatenation of its resolved fragments.
C7_SuggestedDeletionsResolved ==
    (out.op = "read_table_textruns" /\ out.status = "ok")
    => LET cells == RegionCells
       IN  /\ Len(out.value.table_cells) = Len(cells)
           /\ \A k \in 1..Len(cells) :
                ResolvedPieces(cells[k], out.value.table_cells[k][2], params.preserve_format)

\* C7 witness: cells with a suggested deletion were extracted with preserve_format
C7_Witness ==
    /\ out.op = "read_table_textruns"
    /\ out.status = "ok"
    /\ params.preserve_format
    /\ Len(out.value.table_cells) >= 2
    /\ LET cells == RegionCells
       IN  \E k \in 1..Len(cells) : \E i \in 1..Len(Fragments(cells[k])) :
                Fragments(cells[k])[i].deleted

\* every element reachable from a content list, through tables, cells and tables of
\* contents, as a set
RECURSIVE Reachable(_)
ReachableFrom(node) ==
    CASE node.kind = "paragraph" -> {node.elements[i] : i \in 1..Len(node.elements)}
      [] node.kind = "table" ->
            UNION {UNION {Reachable(node.tableRows[r].tableCells[c].content) :
                            c \in 1..Len(node.tableRows[r].tableCells)} :
                   r \in 1..Len(node.tableRows)}
      [] node.kind = "tableOfContents" -> Reachable(node.content)
      [] OTHER -> {}

Reachable(nodes) == UNION {ReachableFrom(nodes[n]) : n \in 1..Len(nodes)}

\* the text of the elements of S that are text and no suggested deletion, by offset
RECURSIVE TextByOffset(_)
TextByOffset(S) ==
    IF S = {} THEN <<>>
    ELSE LET e == CHOOSE x \in S : \A y \in S : x.startIndex <= y.startIndex
         IN  (IF e.kind = "textRun" /\ ~e.deleted THEN e.content ELSE <<>>)
             \o TextByOffset(S \ {e})

\* C8: read_doc_text returns the concatenation, in document order, of the text of
\* every reachable fragment that is no suggested deletion; an empty content list
\* gives the empty string.
C8_FlattenInDocumentOrder ==
    out.op = "read_doc_text"
    => /\ out.value = TextByOffset(Reachable(doc))
       /\ doc = <<>> => out.value = <<>>

\* C8 witness: a document with a table nested in a cell, a table of contents, an element without
\* text and suggested deletions was flattened
C8_Witness ==
    /\ out.op = "read_doc_text"
    /\ Contains(out.value, <<"q">>)
    /\ SubSeq(out.value, Len(out.value) - 1, Len(out.value)) = <<"a", "1">>
    /\ \E e \in Reachable(doc) : e.deleted
    /\ \E e \in Reachable(doc) : e.kind = "inlineObject"

(***************************************************************************)
(* clean_table.  The characters of the model: a letter, the space, the tab *)
(* and the five characters strip_chars removes.                            *)
(***************************************************************************)
MaxStrLen == 3

Chars == {"a", " ", "TAB", "NL", "VT", "NBSP", "BOM", "ZWSP"}

\* what str.strip() takes for whitespace, among Chars
Whitespace == {" ", "TAB", "NL", "VT", "NBSP"}

\* text.replace(ch, "")
RECURSIVE Remove(_, _)
Remove(text, ch) ==
    IF text = <<>> THEN <<>>
    ELSE (IF Head(text) = ch THEN <<>> ELSE <<Head(text)>>) \o Remove(Tail(text), ch)

\* text.replace("  ", " "): one pass from the left over non-overlapping pairs
RECURSIVE ReplaceDoubleSpace(_)
ReplaceDoubleSpace(text) ==
    IF Len(text) < 2 THEN text
    ELSE IF text[1] = " " /\ text[2] = " "
         THEN <<" ">> \o ReplaceDoubleSpace(SubSeq(text, 3, Len(text)))
         ELSE <<text[1]>> \o ReplaceDoubleSpace(Tail(text))

\* text.strip()
RECURSIVE LStrip(_)
LStrip(text) ==
    IF text /= <<>> /\ Head(text) \in Whitespace THEN LStrip(Tail(text)) ELSE text

RECURSIVE RStrip(_)
RStrip(text) ==
    IF text /= <<>> /\ text[Len(text)] \in Whitespace
    THEN RStrip(SubSeq(text, 1, Len(text) - 1)) ELSE text

Strip(text) == RStrip(LStrip(text))

\* strip_chars, were the string stripped before the characters are removed
strip_chars_strip_first(text) ==
    ReplaceDoubleSpace(Remove(Remove(Remove(Remove(Remove(Strip(text),
        "NL"), "VT"), "NBSP"), "BOM"), "ZWSP"))

\* clean_table.strip_chars
strip_chars(text) ==
    Strip(ReplaceDoubleSpace(Remove(Remove(Remove(Remove(Remove(text,
        "NL"), "VT"), "NBSP"), "BOM"), "ZWSP")))

\* clean_table: strip_chars over table.columns and over every cell (table.map)
clean_table(df) ==
    [columns |-> [i \in 1..Len(df.columns) |-> strip_chars(df.columns[i])],
     data |-> [i \in 1..Len(df.data) |->
                 [j \in 1..Len(df.data[i]) |-> strip_chars(df.data[i][j])]]]

RECURSIVE StringsOf(_)
StringsOf(n) ==
    IF n = 0 THEN {<<>>}
    ELSE StringsOf(n - 1) \cup {Append(t, ch) : t \in StringsOf(n - 1), ch \in Chars}

\* longer strings: runs of spaces inside a text, and spaces brought together by a
\* removed character
Samples ==
    { <<"a", " ", " ", " ", "b">>,
      <<"a", " ", " ", " ", " ", "b">>,
      <<"a", " ", "NL", " ", "b">>,
      <<" ", "a", " ", "ZWSP", " ", "BOM", " ", "b", "NBSP">>,
      <<"TAB", "a", "VT", " ", " ", "a", " ", "NL">> }

\* table.df is the grid, table.given the grid the latest clean_table call was handed
CleanTable ==
    /\ table' = [df |-> clean_table(table.df), given |-> table.df, cleaned |-> TRUE]
    /\ UNCHANGED <<wvars, rvars>>

InitClean ==
    /\ \E s \in StringsOf(MaxStrLen) \cup Samples, t \in Samples, header \in BOOLEAN :
        table = [df |-> IF header THEN [columns |-> <<s, t>>, data |-> <<<<t>>, <<t>>>>]
                        ELSE [columns |-> <<t>>, data |-> <<<<t, s>>>>],
                 given |-> [columns |-> <<>>, data |-> <<>>],
                 cleaned |-> FALSE]
    /\ fetched = <<>>
    /\ live = <<>>
    /\ table_body = <<>>
    /\ call = NoCall
    /\ applied = 0
    /\ doc = <<>>
    /\ params = NoParams
    /\ out = NoOut

NextClean == CleanTable

SpecClean == InitClean /\ [][NextClean]_vars

Removed == {"NL", "VT", "NBSP", "BOM", "ZWSP"}

\* the characters of text that are not removed, in order
Kept(text) == LET P == {p \in 1..Len(text) : text[p] \notin Removed}
                  RECURSIVE Pick(_)
                  Pick(Q) == IF Q = {} THEN <<>>
                             ELSE LET m == CHOOSE x \in Q : \A y \in Q : x <= y
                                  IN  <<text[m]>> \o Pick(Q \ {m})
              IN  Pick(P)

\* where the run of spaces that holds position p begins
RunStart(text, p) ==
    CHOOSE b \in 1..p :
        /\ \A q \in b..p : text[q] = " "
        /\ b = 1 \/ text[b - 1] /= " "

\* one left-to-right pass halves every run of spaces, rounding up: of a run, the
\* spaces at an even distance from its start stay
SurvivesPass(text, p) == text[p] /= " " \/ (p - RunStart(text, p)) % 2 = 0

\* out is the given string with the five characters removed, then every run of k
\* spaces cut to (k + 1) \div 2 spaces, then the whitespace at both ends dropped
SinglePassAfterRemoval(given, result) ==
    LET k == Kept(given)
        S == {p \in 1..Len(k) : SurvivesPass(k, p)}
        inner == {p \in S : /\ \E q \in S : q <= p /\ k[q] \notin Whitespace
                            /\ \E q \in S : q >= p /\ k[q] \notin Whitespace}
    IN  /\ Len(result) = Cardinality(inner)
        /\ \A p \in inner : result[Cardinality({q \in inner : q <= p})] = k[p]

Normalized(given, result) ==
    /\ \A p \in 1..Len(result) : result[p] \notin Removed
    /\ result /= <<>> => result[1] \notin Whitespace /\ result[Len(result)] \notin Whitespace
    /\ SinglePassAfterRemoval(given, result)

\* C9: the output of clean_table holds, for every header and every cell, no newline,
\* vertical tab, non-breaking space, byte-order mark or zero-width space and no
\* leading or trailing whitespace; double spaces are collapsed in one left-to-right
\* pass made after those characters are removed.
C9_Normalized ==
    table.cleaned
    => /\ Len(table.df.columns) = Len(table.given.columns)
       /\ \A i \in 1..Len(table.given.columns) :
            Normalized(table.given.columns[i], table.df.columns[i])
       /\ Len(table.df.data) = Len(table.given.data)
       /\ \A i \in 1..Len(table.given.data) :
            /\ Len(table.df.data[i]) = Len(table.given.data[i])
            /\ \A j \in 1..Len(table.given.data[i]) :
                Normalized(table.given.data[i][j], table.df.data[i][j])

\* C9 witness: a header with a run of three spaces keeps two of them, and a cell whose spaces
\* meet once a newline is removed keeps one
C9_Witness ==
    /\ table.cleaned
    /\ table.given.columns[1] = <<"a", " ", " ", " ", "b">>
    /\ table.df.columns[1] = <<"a", " ", " ", "b">>
    /\ table.given.data[1][1] = <<"a", " ", "NL", " ", "b">>
    /\ table.df.data[1][1] = <<"a", " ", "b">>

Init ==
    /\ \E s \in Shapes :
        /\ fetched = DocBuffer(s[1], s[2])
        /\ live = DocBuffer(s[1], s[2])
        /\ table_body = TableNode(DocBuffer(s[1], s[2]), s[1], s[2])
    /\ call = NoCall
    /\ applied = 0
    /\ doc = <<>>
    /\ params = NoParams
    /\ out = NoOut
    /\ table = NoTable

Next == ReadDoc \/ InsertRows \/ InsertText \/ ApplyOp

Spec == Init /\ [][Next]_vars

====
